---- MODULE Spec2Model ----
(***************************************************************************)
(* A model of stripe-reporter.py: the report pipeline                      *)
(*   get_payout_transactions -> get_payment_intents_ids ->                 *)
(*   make_intent_charge_dict (thread pool) -> simplify_report_data ->      *)
(*   aggregate_report_transactions -> json.dumps / save_to_worksheet,      *)
(* entered either through process_report_data_from_args (payout given by   *)
(* the arguments) or through get_latest_payouts (interactive selection),   *)
(* and read_report_data_from_json applied to a printed dump.               *)
(*                                                                         *)
(* A run starts either at main(), whose line 253 raises for every key, or  *)
(* at a direct call of one of the module's functions: the ones main would  *)
(* call at lines 259-262, or make_report.                                  *)
(*                                                                         *)
(* Python values: None is the string None below; every Python str of the   *)
(* model is drawn from sets that do not contain it. A Python dict whose    *)
(* iteration order matters is a sequence of [key, value] records in        *)
(* insertion order, with distinct keys. An attribute access on an object   *)
(* is a record field; hasattr(o, "f") is "f" \in DOMAIN o.                 *)
(***************************************************************************)
EXTENDS Integers, Sequences, FiniteSets, TLC

\* ------------------------------------------------------------------ bounds
MaxEntries == 3    \* ledger entries the provider returns for one payout
PageSize == 2      \* entries per page of the paginated listing
MaxN == 2          \* largest -s/--poll-stripe argument
MaxAggLen == 3     \* length of the lists the aggregator is applied to alone

\* --------------------------------------------------------------- constants
None == "None"

\* line 15
DIRECT_CHARGE == "SudoSOS Topup"

\* ThreadPoolExecutor() of line 47 is given no max_workers: the library takes
\* min(32, os.cpu_count() + 4) when the executor is made. The processors of
\* the machines the program is run on:
CpuCounts == {1, 4}
DefaultMaxWorkers(cpu_count) == IF cpu_count + 4 < 32 THEN cpu_count + 4 ELSE 32

\* Exceptions, by the name of their class and where they are raised.
ValueErrorSessions == "ValueError: Intent has more than 1 session."
ValueErrorNoInput == "ValueError: Either payout ID or JSON file must be provided."
AttributeError == "AttributeError: no attribute 'payment_intent' / 'id'"
AttributeErrorStartsWith == "AttributeError: 'str' object has no attribute 'startsWith'"
IndexError == "IndexError"
APIError == "stripe.error.APIError"

IsValueError(e) == e \in {ValueErrorSessions, ValueErrorNoInput}

\* --------------------------------------------------- the provider's records
IntentIds == {"pi_1", "pi_2"}
PayoutIds == [i \in 1..(MaxN + 1) |-> CASE i = 1 -> "po_1" [] i = 2 -> "po_2"
                                         [] i = 3 -> "po_3" [] OTHER -> "po_4"]
TxnIds == [i \in 1..(MaxEntries + 1) |-> CASE i = 1 -> "txn_1" [] i = 2 -> "txn_2"
                                            [] i = 3 -> "txn_3" [] i = 4 -> "txn_4"
                                            [] OTHER -> "txn_5"]

\* The shapes of a balance transaction: its type, its amounts in minor units and
\* its source. A source either has a payment_intent attribute (expanded by the
\* request, written here as the intent's id, or None) or has none (the source
\* of a payout entry or of an adjustment is not a charge).
Shapes ==
    { [type |-> "payout",     amount |-> -1445, fee |-> 0,  net |-> -1445,
       source |-> [object |-> "payout"]],
      [type |-> "charge",     amount |-> 1000,  fee |-> 30, net |-> 970,
       source |-> [object |-> "charge", payment_intent |-> "pi_1"]],
      [type |-> "charge",     amount |-> 500,   fee |-> 15, net |-> 485,
       source |-> [object |-> "charge", payment_intent |-> "pi_2"]],
      [type |-> "refund",     amount |-> -500,  fee |-> 0,  net |-> -500,
       source |-> [object |-> "refund", payment_intent |-> "pi_1"]],
      [type |-> "charge",     amount |-> 250,   fee |-> 10, net |-> 240,
       source |-> [object |-> "charge", payment_intent |-> None]],
      [type |-> "adjustment", amount |-> -25,   fee |-> 0,  net |-> -25,
       source |-> [object |-> "dispute"]] }

\* The k-th entry of a payout's ledger with shape s.
Entry(k, s) ==
    [id |-> TxnIds[k], created |-> 1700000000 + k, currency |-> "eur",
     type |-> s.type, amount |-> s.amount, fee |-> s.fee, net |-> s.net,
     source |-> s.source]

\* Checkout sessions: line_items.data as the sequence of its descriptions, and
\* the customer_details record.
Session1 == [line_items |-> <<"Coffee", "Tea">>,
             customer_details |-> [name |-> "A", email |-> "a@x.com"]]
Session2 == [line_items |-> <<None>>,
             customer_details |-> [name |-> None, email |-> "b@x.com"]]

\* What stripe.checkout.Session.list answers for one intent: an error of the
\* service, or the list of the intent's sessions.
Responses ==
    { [error |-> TRUE,  data |-> <<>>],
      [error |-> FALSE, data |-> <<>>],
      [error |-> FALSE, data |-> <<Session1>>],
      [error |-> FALSE, data |-> <<Session2>>],
      [error |-> FALSE, data |-> <<Session1, Session2>>] }

\* ------------------------------------------------------------ pure helpers
Range(s) == {s[i] : i \in DOMAIN s}

RECURSIVE SumOf(_, _)
\* sum of f[x] over the finite set S
SumOf(f, S) ==
    IF S = {} THEN 0
    ELSE LET x == CHOOSE y \in S : TRUE IN f[x] + SumOf(f, S \ {x})

\* What a function returns: a value, or the exception it raises.
Ok(v) == [exc |-> None, value |-> v]
Raises(e) == [exc |-> e, value |-> <<>>]

\* --------------------------------------------------- get_payout_transactions
\* The comprehension of line 27 over the entries of one page.
\* a filter that keeps the charges only
payout_filter_charges(page) == SelectSeq(page, LAMBDA t : t.type = "charge")
payout_filter(page) == SelectSeq(page, LAMBDA t : t.type # "payout")

\* --------------------------------------------------- get_payment_intents_ids
RECURSIVE get_payment_intents_ids(_)
\* Lines 35-36: the ids of the transactions whose source has a payment_intent
\* attribute, in order, duplicates kept. The attribute may hold None, and
\* None.id raises AttributeError.
get_payment_intents_ids(transactions_data) ==
    IF transactions_data = <<>> THEN Ok(<<>>)
    ELSE LET t == Head(transactions_data)
             rest == get_payment_intents_ids(Tail(transactions_data))
         IN IF "payment_intent" \notin DOMAIN t.source
            THEN rest
            ELSE IF t.source.payment_intent = None
                 THEN Raises(AttributeError)
                 ELSE IF rest.exc # None THEN rest
                      ELSE Ok(<<t.source.payment_intent>> \o rest.value)

\* ----------------------------------------------------------- get_intent_data
NoCustomer == [name |-> None, email |-> None]

\* the last line item taken for the first
get_intent_data_last_item(intent_id, charges) ==
    IF Len(charges) > 1 THEN Raises(ValueErrorSessions)
    ELSE IF Len(charges) = 0
         THEN Ok(<<intent_id, [product |-> DIRECT_CHARGE, customer |-> NoCustomer]>>)
         ELSE Ok(<<intent_id,
                   [product |-> charges[1].line_items[Len(charges[1].line_items)],
                    customer |-> charges[1].customer_details]>>)

\* Lines 62-69, on the sessions the service listed for intent_id: the pair
\* (intent_id, intent_data), or the ValueError of line 63.
get_intent_data(intent_id, charges) ==
    IF Len(charges) > 1 THEN Raises(ValueErrorSessions)
    ELSE IF Len(charges) = 0
         THEN Ok(<<intent_id, [product |-> DIRECT_CHARGE, customer |-> NoCustomer]>>)
         ELSE Ok(<<intent_id, [product |-> charges[1].line_items[1],
                               customer |-> charges[1].customer_details]>>)

\* ------------------------------------------------------ simplify_report_data
Unmatched == [product |-> None, customer |-> NoCustomer]

\* The position of key in a dict held as a sequence of [key, value]; 0 if absent.
DictIndex(d, key) ==
    IF \E i \in DOMAIN d : d[i].key = key
    THEN CHOOSE i \in DOMAIN d : d[i].key = key
    ELSE 0

DictKeys(d) == {d[i].key : i \in DOMAIN d}

\* d[key] = value: a new key goes last, a key already there keeps its place.
DictSet(d, key, value) ==
    IF DictIndex(d, key) = 0
    THEN Append(d, [key |-> key, value |-> value])
    ELSE [d EXCEPT ![DictIndex(d, key)].value = value]

\* d.get(key, default)
DictGet(d, key, default) ==
    IF DictIndex(d, key) = 0 THEN default ELSE d[DictIndex(d, key)].value

\* Lines 79-92 for one transaction.
simplified_transaction(transaction, intent_type_charge_dict) ==
    LET intent_data == DictGet(intent_type_charge_dict,
                               transaction.source.payment_intent, Unmatched)
    IN [id |-> transaction.id,
        created |-> transaction.created,
        amount |-> transaction.amount,
        currency |-> transaction.currency,
        fee |-> transaction.fee,
        net |-> transaction.net,
        product |-> intent_data.product,
        name |-> intent_data.customer.name,
        email |-> intent_data.customer.email]

RECURSIVE simplify_from(_, _, _)
simplify_from(transactions_data, intent_type_charge_dict, simplified_data) ==
    IF transactions_data = <<>> THEN Ok(simplified_data)
    ELSE LET t == Head(transactions_data)
         IN IF "payment_intent" \notin DOMAIN t.source
               \/ t.source.payment_intent = None
            THEN Raises(AttributeError)
            ELSE simplify_from(Tail(transactions_data), intent_type_charge_dict,
                     Append(simplified_data,
                            simplified_transaction(t, intent_type_charge_dict)))

RECURSIVE simplify_by_dict(_, _, _)
\* a join driven by the dict's entries instead of by the transactions
simplify_by_dict(transactions_data, intent_type_charge_dict, entries) ==
    IF entries = <<>> THEN Ok(<<>>)
    ELSE LET mine == SelectSeq(transactions_data,
                         LAMBDA t : "payment_intent" \in DOMAIN t.source
                                    /\ t.source.payment_intent = Head(entries).key)
             rest == simplify_by_dict(transactions_data, intent_type_charge_dict,
                                      Tail(entries))
         IN Ok([i \in DOMAIN mine |->
                   simplified_transaction(mine[i], intent_type_charge_dict)]
               \o rest.value)

simplify_report_data_by_dict(transactions_data, intent_type_charge_dict) ==
    simplify_by_dict(transactions_data, intent_type_charge_dict,
                     intent_type_charge_dict)

\* Lines 77-94. Line 79 reads transaction.source.payment_intent.id of every
\* transaction: a source without the attribute, or with None in it, raises
\* AttributeError.
simplify_report_data(transactions_data, intent_type_charge_dict) ==
    simplify_from(transactions_data, intent_type_charge_dict, <<>>)

\* --------------------------------------------- aggregate_report_transactions
\* a fold that assigns where line 117 adds
aggregate_step_overwrite(aggregated_data, transaction) ==
    DictSet(aggregated_data, transaction.product,
            [amount |-> transaction.amount, fee |-> transaction.fee,
             net |-> transaction.net, product |-> transaction.product])

\* Lines 104-119: one transaction folded into aggregated_data.
aggregate_step(aggregated_data, transaction) ==
    LET product == transaction.product
        i == DictIndex(aggregated_data, product)
    IN IF i = 0
       THEN Append(aggregated_data,
                [key |-> product,
                 value |-> [amount |-> transaction.amount,
                            fee |-> transaction.fee,
                            net |-> transaction.net,
                            product |-> product]])
       ELSE [aggregated_data EXCEPT
                ![i].value.amount = @ + transaction.amount,
                ![i].value.fee = @ + transaction.fee,
                ![i].value.net = @ + transaction.net]

RECURSIVE aggregate_from(_, _)
aggregate_from(report_transactions, aggregated_data) ==
    IF report_transactions = <<>> THEN aggregated_data
    ELSE aggregate_from(Tail(report_transactions),
                        aggregate_step(aggregated_data, Head(report_transactions)))

\* Lines 101-121.
aggregate_report_transactions(report_transactions) ==
    aggregate_from(report_transactions, <<>>)

\* ----------------------------------------------------- json.dumps, json.load
\* A JSON value of the dump: null, a string or a number.
JNull == [t |-> "null", s |-> "", n |-> 0]
JString(s) == [t |-> "string", s |-> s, n |-> 0]
JNumber(n) == [t |-> "number", s |-> "", n |-> n]

\* The encoder on a value that is a str or None, and on an int.
EncodeOptStr(v) == IF v = None THEN JNull ELSE JString(v)
EncodeInt(n) == JNumber(n)

\* The encoder on a dict key: a JSON object's keys are strings, and the key None
\* is written as the string null.
EncodeKey(k) == IF k = None THEN "null" ELSE k

\* The decoder on a value that was a str or None, and on a number.
DecodeOptStr(j) == IF j.t = "null" THEN None ELSE j.s
DecodeInt(j) == j.n

EncodeTransaction(x) ==
    [id |-> EncodeOptStr(x.id), created |-> EncodeInt(x.created),
     amount |-> EncodeInt(x.amount), currency |-> EncodeOptStr(x.currency),
     fee |-> EncodeInt(x.fee), net |-> EncodeInt(x.net),
     product |-> EncodeOptStr(x.product), name |-> EncodeOptStr(x.name),
     email |-> EncodeOptStr(x.email)]

DecodeTransaction(j) ==
    [id |-> DecodeOptStr(j.id), created |-> DecodeInt(j.created),
     amount |-> DecodeInt(j.amount), currency |-> DecodeOptStr(j.currency),
     fee |-> DecodeInt(j.fee), net |-> DecodeInt(j.net),
     product |-> DecodeOptStr(j.product), name |-> DecodeOptStr(j.name),
     email |-> DecodeOptStr(j.email)]

EncodeBucket(b) ==
    [amount |-> EncodeInt(b.amount), fee |-> EncodeInt(b.fee),
     net |-> EncodeInt(b.net), product |-> EncodeOptStr(b.product)]

DecodeBucket(j) ==
    [amount |-> DecodeInt(j.amount), fee |-> DecodeInt(j.fee),
     net |-> DecodeInt(j.net), product |-> DecodeOptStr(j.product)]

\* json.dumps(report_data) of line 244: the members of each object in the
\* dict's order.
json_dumps(report_data) ==
    [balance_payout_id |-> EncodeOptStr(report_data.balance_payout_id),
     transactions |-> [i \in DOMAIN report_data.transactions |->
                          EncodeTransaction(report_data.transactions[i])],
     aggregation |-> [i \in DOMAIN report_data.aggregation |->
                         [key |-> EncodeKey(report_data.aggregation[i].key),
                          value |-> EncodeBucket(report_data.aggregation[i].value)]]]

RECURSIVE LoadObject(_, _)
\* The decoder builds a dict from an object's members in order: a repeated key
\* keeps its first place and takes the last value.
LoadObject(members, d) ==
    IF members = <<>> THEN d
    ELSE LoadObject(Tail(members),
                    DictSet(d, Head(members).key, DecodeBucket(Head(members).value)))

\* json.load of line 143 on a document json.dumps wrote.
json_load(doc) ==
    [balance_payout_id |-> DecodeOptStr(doc.balance_payout_id),
     transactions |-> [i \in DOMAIN doc.transactions |->
                          DecodeTransaction(doc.transactions[i])],
     aggregation |-> LoadObject(doc.aggregation, <<>>)]

\* ====================================================================== state
VARIABLES
    entry,                    \* the function the run was started with
    file,                     \* <<the document in the JSON file of -j>>, if any
    max_workers,              \* the pool size of the executor of line 47; 0 without one
    args,                     \* the parsed arguments (args.payout is assigned at line 207)
    pc,                       \* where the main thread is
    payouts,                  \* payouts.data of line 193: the ids listed
    choice,                   \* <<the last line read by input() at line 201>>
    provided,                 \* every ledger entry the provider has returned so far
    transactions_data,        \* line 27, filled page by page
    payment_intents_ids,      \* line 129
    sessions,                 \* the provider's answer for each intent looked up so far
    futures,                  \* line 48: one record per submitted lookup
    intent_type_charge_dict,  \* line 46
    returned,                 \* make_intent_charge_dict has returned its dict (line 56)
    exc,                      \* the exception being propagated, or that ended the run
    lookups,                  \* per intent, the remote lookups issued so far
    writes,                   \* per intent, the assignments of line 54 so far
    report_transactions,      \* line 132
    report_data,              \* line 134
    stdout,                   \* the documents printed at line 244
    workbook,                 \* the names workbook.save was called with (line 183)
    reloaded                  \* <<report_data of a run given -j (line 237)>>

vars == <<entry, file, max_workers, args, pc, payouts, choice, provided, transactions_data, payment_intents_ids,
          sessions, futures, intent_type_charge_dict, returned, exc, lookups, writes,
          report_transactions, report_data, stdout, workbook, reloaded>>

\* The locals of one call of get_report_data and of make_intent_charge_dict.
frames == <<provided, transactions_data, payment_intents_ids, sessions,
            futures, intent_type_charge_dict, returned, lookups, writes, report_transactions>>
locals == <<max_workers, frames>>

outputs == <<report_data, stdout, workbook, reloaded>>

\* no intent has been looked up yet
NoSessions == [i \in {} |-> [error |-> FALSE, data |-> <<>>]]
NoCount == [i \in IntentIds |-> 0]
NoReport == [balance_payout_id |-> None, transactions |-> <<>>, aggregation |-> <<>>]

\* poll_stripe is <<>> when -s is not given and <<N>> when it is.
Interactive == args.poll_stripe # <<>>

\* What the user may type: a text that is no number, or a number.
Inputs == {[numeric |-> FALSE, value |-> 0]}
          \cup [numeric : {TRUE}, value : -1..(MaxN + 1)]

\* The arguments without -s: -p is given or not.
DirectArgs ==
    [poll_stripe : {<<>>}, payout : {None, PayoutIds[1]}, json : {None},
     print_json : BOOLEAN, save_to_excel : BOOLEAN]

\* The arguments with -s N.
InteractiveArgs ==
    [poll_stripe : {<<n>> : n \in 0..MaxN}, payout : {None}, json : {None},
     print_json : BOOLEAN, save_to_excel : BOOLEAN]

\* The lists the aggregator is applied to: enriched transactions with a null
\* product, negative amounts and repeated products.
Amounts ==
    { [amount |-> 1000, fee |-> 30, net |-> 970],
      [amount |-> -500, fee |-> 0,  net |-> -500],
      [amount |-> 250,  fee |-> 10, net |-> 240] }

Enriched(k, m, product) ==
    [id |-> TxnIds[k], created |-> 1700000000 + k, amount |-> m.amount,
     currency |-> "eur", fee |-> m.fee, net |-> m.net, product |-> product,
     name |-> None, email |-> None]

EnrichedLists ==
    UNION { { [k \in 1..len |-> Enriched(k, ms[k], ps[k])] :
                ms \in [1..len -> Amounts],
                ps \in [1..len -> {None, "Coffee", DIRECT_CHARGE}] } :
            len \in 0..MaxAggLen }

FreshLocals ==
    /\ max_workers = 0
    /\ provided = <<>>
    /\ transactions_data = <<>>
    /\ payment_intents_ids = <<>>
    /\ sessions = NoSessions
    /\ futures = <<>>
    /\ intent_type_charge_dict = <<>>
    /\ returned = FALSE
    /\ lookups = NoCount
    /\ writes = NoCount
    /\ report_transactions = <<>>

NoOutputs ==
    /\ report_data = NoReport
    /\ stdout = <<>>
    /\ workbook = <<>>
    /\ reloaded = <<>>

\* A run without -s: main(), or the call main makes at line 262,
\* process_report_data_from_args(args), made directly. The first run is given
\* no JSON file.
Init ==
    /\ entry \in {"main", "process_report_data_from_args"}
    /\ args \in DirectArgs
    /\ pc = IF entry = "main" THEN "main" ELSE "process_report_data"
    /\ file = <<>>
    /\ payouts = <<>>
    /\ choice = <<>>
    /\ exc = None
    /\ FreshLocals
    /\ NoOutputs

\* A run with -s N: main(), or the call main makes at line 260,
\* get_latest_payouts(args), made directly.
InitInteractive ==
    /\ entry \in {"main", "get_latest_payouts"}
    /\ args \in InteractiveArgs
    /\ pc = IF entry = "main" THEN "main" ELSE "get_latest_payouts"
    /\ file = <<>>
    /\ payouts = <<>>
    /\ choice = <<>>
    /\ exc = None
    /\ FreshLocals
    /\ NoOutputs

\* make_report(balance_payout_id), which nothing in the file calls: args.payout
\* stands for its argument, which may be None.
InitMakeReport ==
    /\ entry = "make_report"
    /\ args \in [poll_stripe : {<<>>}, payout : {None, PayoutIds[1]}, json : {None},
                  print_json : {FALSE}, save_to_excel : {TRUE}]
    /\ pc = "get_payout_transactions"
    /\ file = <<>>
    /\ payouts = <<>>
    /\ choice = <<>>
    /\ exc = None
    /\ FreshLocals
    /\ NoOutputs

\* aggregate_report_transactions is about to be applied (line 133) to any list
\* of enriched transactions.
InitAgg ==
    /\ entry = "process_report_data_from_args"
    /\ args = [poll_stripe |-> <<>>, payout |-> PayoutIds[1], json |-> None,
               print_json |-> TRUE, save_to_excel |-> TRUE]
    /\ pc = "aggregate_report_transactions"
    /\ file = <<>>
    /\ max_workers = 0
    /\ payouts = <<>>
    /\ choice = <<>>
    /\ exc = None
    /\ provided = <<>>
    /\ transactions_data = <<>>
    /\ payment_intents_ids = <<>>
    /\ sessions = NoSessions
    /\ futures = <<>>
    /\ intent_type_charge_dict = <<>>
    /\ returned = FALSE
    /\ lookups = NoCount
    /\ writes = NoCount
    /\ report_transactions \in EnrichedLists
    /\ NoOutputs

\* ==================================================================== actions
\* An exception e leaves the pipeline. Called from get_latest_payouts, the call
\* of line 208 is inside the try of lines 200-211, whose except clause takes
\* every ValueError, prints "Invalid input" and lets the while loop prompt
\* again; the frames of the failed call are gone. Anything else ends the run.
Raise(e) ==
    IF Interactive /\ IsValueError(e)
    THEN /\ pc' = "prompt"
         /\ exc' = None
         /\ max_workers' = 0
         /\ provided' = <<>>
         /\ transactions_data' = <<>>
         /\ payment_intents_ids' = <<>>
         /\ sessions' = NoSessions
         /\ futures' = <<>>
         /\ intent_type_charge_dict' = <<>>
         /\ returned' = FALSE
         /\ lookups' = NoCount
         /\ writes' = NoCount
         /\ report_transactions' = <<>>
    ELSE /\ pc' = "fatal"
         /\ exc' = e
         /\ max_workers' = 0
         /\ UNCHANGED frames

\* Lines 192-198: stripe.Payout.list(limit=n) answers with at most n payouts.
ListPayouts ==
    /\ pc = "get_latest_payouts"
    /\ \E k \in 0..args.poll_stripe[1] :
          /\ payouts' = [i \in 1..k |-> PayoutIds[i]]
          /\ pc' = IF args.poll_stripe[1] > 0 THEN "prompt" ELSE "done"
    /\ UNCHANGED <<entry, file, args, choice, exc, locals, outputs>>

\* Line 193 fails: the error of the service is not caught.
ListPayoutsFails ==
    /\ pc = "get_latest_payouts"
    /\ pc' = "fatal"
    /\ exc' = APIError
    /\ UNCHANGED <<entry, file, args, payouts, choice, locals, outputs>>

\* Lines 201-207 of one pass of the while loop, on the line the user typed.
PromptSelect(input) ==
    LET n == args.poll_stripe[1] IN
    /\ choice' = <<input>>
    /\ IF ~input.numeric
       THEN \* int() raises ValueError, caught at line 210
            /\ pc' = "prompt"
            /\ UNCHANGED <<args, exc>>
       ELSE IF input.value = 0
       THEN /\ pc' = "done"
            /\ UNCHANGED <<args, exc>>
       ELSE IF input.value > n \/ input.value < 0
       THEN /\ pc' = "prompt"
            /\ UNCHANGED <<args, exc>>
       ELSE IF input.value > Len(payouts)
       THEN \* payouts.data[choice - 1] raises IndexError, which nothing catches
            /\ pc' = "fatal"
            /\ exc' = IndexError
            /\ UNCHANGED args
       ELSE /\ args' = [args EXCEPT !.payout = payouts[input.value]]
            /\ pc' = "process_report_data"
            /\ UNCHANGED exc

Prompt ==
    /\ pc = "prompt"
    /\ \E input \in Inputs : PromptSelect(input)
    /\ UNCHANGED <<entry, file, payouts, locals, outputs>>

\* Lines 252-255: str has no method startsWith, so the test of line 253 raises
\* for every key, before the arguments are parsed.
Main ==
    /\ pc = "main"
    /\ pc' = "fatal"
    /\ exc' = AttributeErrorStartsWith
    /\ UNCHANGED <<entry, file, args, payouts, choice, locals, outputs>>

\* Lines 236-241: with a JSON file the report is read from it, whatever the
\* payout; without one the payout's report is fetched, and without both the
\* call raises.
ProcessReportData ==
    /\ pc = "process_report_data"
    /\ IF args.json # None
       THEN /\ reloaded' = <<json_load(file[1])>>
            /\ pc' = "export"
            /\ UNCHANGED <<exc, locals>>
       ELSE /\ IF args.payout # None
               THEN /\ pc' = "get_payout_transactions"
                    /\ UNCHANGED <<exc, locals>>
               ELSE Raise(ValueErrorNoInput)
            /\ UNCHANGED reloaded
    /\ UNCHANGED <<entry, file, args, payouts, choice, report_data, stdout, workbook>>

\* Lines 22-27 for one page of auto_paging_iter: the provider returns the next
\* page (a page with more after it is full, and only a payout's first page can
\* be empty), and the comprehension filters it. After the last page the
\* function returns.
FetchPage ==
    /\ pc = "get_payout_transactions"
    /\ \E len \in 0..PageSize, has_more \in BOOLEAN :
          /\ Len(provided) + len <= MaxEntries
          /\ has_more => (len = PageSize /\ Len(provided) + len < MaxEntries)
          /\ len = 0 => provided = <<>>
          /\ \E shapes \in [1..len -> Shapes] :
                LET page == [i \in 1..len |-> Entry(Len(provided) + i, shapes[i])]
                IN /\ provided' = provided \o page
                   /\ transactions_data' = transactions_data \o payout_filter(page)
          /\ pc' = IF has_more THEN "get_payout_transactions"
                   ELSE "get_payment_intents_ids"
    /\ UNCHANGED <<entry, file, args, payouts, choice, exc, max_workers,
                   payment_intents_ids, sessions, futures,
                   intent_type_charge_dict, returned, lookups, writes,
                   report_transactions, outputs>>

\* A request for a page fails: the error propagates out of the pipeline.
FetchFails ==
    /\ pc = "get_payout_transactions"
    /\ Raise(APIError)
    /\ UNCHANGED <<entry, file, args, payouts, choice, outputs>>

\* Line 129.
GetPaymentIntentsIds ==
    /\ pc = "get_payment_intents_ids"
    /\ LET r == get_payment_intents_ids(transactions_data)
       IN IF r.exc # None
          THEN Raise(r.exc)
          ELSE /\ payment_intents_ids' = r.value
               /\ pc' = "make_intent_charge_dict"
               /\ UNCHANGED <<exc, max_workers, provided, transactions_data, sessions, futures,
                              intent_type_charge_dict, returned, lookups, writes,
                              report_transactions>>
    /\ UNCHANGED <<entry, file, args, payouts, choice, outputs>>

NoResult == Raises(None)

\* Lines 46-47: the executor is made, sized by the machine's processors.
MakeExecutor ==
    /\ pc = "make_intent_charge_dict"
    /\ \E cpu_count \in CpuCounts : max_workers' = DefaultMaxWorkers(cpu_count)
    /\ pc' = IF payment_intents_ids = <<>> THEN "as_completed" ELSE "submit"
    /\ UNCHANGED <<entry, file, args, payouts, choice, exc, frames, outputs>>

\* Lines 49-50: one executor.submit per element of the list.
Submit ==
    /\ pc = "submit"
    /\ LET k == Len(futures) + 1
       IN /\ futures' = Append(futures, [intent_id |-> payment_intents_ids[k],
                                         state |-> "pending", result |-> NoResult])
          /\ pc' = IF k = Len(payment_intents_ids) THEN "as_completed" ELSE "submit"
    /\ UNCHANGED <<entry, file, args, payouts, choice, exc, max_workers, provided,
                   transactions_data,
                   payment_intents_ids, sessions, intent_type_charge_dict, returned,
                   lookups, writes, report_transactions, outputs>>

Running == {k \in DOMAIN futures : futures[k].state = "running"}

\* A worker of the pool takes a pending lookup and sends the request of line 60.
WorkerStart(k) ==
    /\ futures[k].state = "pending"
    /\ Cardinality(Running) < max_workers
    /\ futures' = [futures EXCEPT ![k].state = "running"]
    /\ lookups' = [lookups EXCEPT ![futures[k].intent_id] = @ + 1]
    /\ UNCHANGED <<entry, file, args, pc, payouts, choice, exc, max_workers, provided,
                   transactions_data,
                   payment_intents_ids, sessions, intent_type_charge_dict, returned,
                   writes, report_transactions, outputs>>

\* The future's outcome on the provider's answer: line 60 raising, or lines 62-69.
Lookup(intent_id, response) ==
    IF response.error THEN Raises(APIError)
    ELSE get_intent_data(intent_id, response.data)

\* The answer arrives and the worker finishes get_intent_data. The provider
\* answers the same for the same intent throughout a run.
WorkerFinish(k) ==
    /\ futures[k].state = "running"
    /\ \E response \in Responses :
          /\ futures[k].intent_id \in DOMAIN sessions
                => response = sessions[futures[k].intent_id]
          /\ sessions' = [i \in DOMAIN sessions \cup {futures[k].intent_id} |->
                             IF i = futures[k].intent_id THEN response ELSE sessions[i]]
          /\ futures' = [futures EXCEPT
                            ![k].state = "finished",
                            ![k].result = Lookup(futures[k].intent_id, response)]
    /\ UNCHANGED <<entry, file, args, pc, payouts, choice, exc, max_workers, provided,
                   transactions_data,
                   payment_intents_ids, intent_type_charge_dict, returned, lookups,
                   writes, report_transactions, outputs>>

\* a loop that skips the futures that raised
as_completed_swallow(k) ==
    /\ futures[k].state = "finished"
    /\ futures' = [futures EXCEPT ![k].state = "yielded"]
    /\ IF futures[k].result.exc # None
       THEN UNCHANGED <<intent_type_charge_dict, writes>>
       ELSE /\ intent_type_charge_dict' =
                   DictSet(intent_type_charge_dict, futures[k].result.value[1],
                           futures[k].result.value[2])
            /\ writes' = [writes EXCEPT ![futures[k].result.value[1]] = @ + 1]
    /\ UNCHANGED <<pc, exc>>

\* Lines 52-54 for one future as_completed yields: any finished future not
\* yielded yet. future.result() returns the pair or raises what the lookup raised.
as_completed(k) ==
    /\ futures[k].state = "finished"
    /\ futures' = [futures EXCEPT ![k].state = "yielded"]
    /\ IF futures[k].result.exc # None
       THEN /\ exc' = futures[k].result.exc
            /\ pc' = "shutdown"
            /\ UNCHANGED <<intent_type_charge_dict, writes>>
       ELSE /\ intent_type_charge_dict' =
                   DictSet(intent_type_charge_dict, futures[k].result.value[1],
                           futures[k].result.value[2])
            /\ writes' = [writes EXCEPT ![futures[k].result.value[1]] = @ + 1]
            /\ UNCHANGED <<pc, exc>>

AsCompleted(k) ==
    /\ pc = "as_completed"
    /\ as_completed(k)
    /\ UNCHANGED <<entry, file, args, payouts, choice, max_workers, provided, transactions_data,
                   payment_intents_ids, sessions, returned, lookups,
                   report_transactions, outputs>>

\* a return indented into the loop of lines 52-54
ReturnDict_in_loop ==
    /\ pc = "as_completed"
    /\ \E k \in DOMAIN futures : futures[k].state = "yielded"
    /\ returned' = TRUE
    /\ pc' = "simplify_report_data"
    /\ max_workers' = 0
    /\ UNCHANGED <<entry, file, args, payouts, choice, exc, provided, transactions_data,
                   payment_intents_ids, sessions, futures, intent_type_charge_dict,
                   lookups, writes, report_transactions, outputs>>

\* Line 56, after the with block: the loop has yielded every future and the
\* executor has shut down; the dict is returned to get_report_data.
ReturnDict ==
    /\ pc = "as_completed"
    /\ \A k \in DOMAIN futures : futures[k].state = "yielded"
    /\ returned' = TRUE
    /\ pc' = "simplify_report_data"
    /\ max_workers' = 0
    /\ UNCHANGED <<entry, file, args, payouts, choice, exc, provided, transactions_data,
                   payment_intents_ids, sessions, futures, intent_type_charge_dict,
                   lookups, writes, report_transactions, outputs>>

\* The with block is left by the exception of line 53: the executor's exit waits
\* (shutdown(wait=True)) until no lookup is pending or running, and then the
\* exception propagates out of make_intent_charge_dict.
ShutdownRaise ==
    /\ pc = "shutdown"
    /\ \A k \in DOMAIN futures : futures[k].state \in {"finished", "yielded"}
    /\ Raise(exc)
    /\ UNCHANGED <<entry, file, args, payouts, choice, outputs>>

\* Line 132.
Simplify ==
    /\ pc = "simplify_report_data"
    /\ LET r == simplify_report_data(transactions_data, intent_type_charge_dict)
       IN IF r.exc # None
          THEN Raise(r.exc)
          ELSE /\ report_transactions' = r.value
               /\ pc' = "aggregate_report_transactions"
               /\ UNCHANGED <<exc, max_workers, provided, transactions_data, payment_intents_ids,
                              sessions, futures, intent_type_charge_dict, returned,
                              lookups, writes>>
    /\ UNCHANGED <<entry, file, args, payouts, choice, outputs>>

\* Lines 133-138; the dict is returned to the caller of get_report_data.
Aggregate ==
    /\ pc = "aggregate_report_transactions"
    /\ report_data' = [balance_payout_id |-> args.payout,
                       transactions |-> report_transactions,
                       aggregation |-> aggregate_report_transactions(report_transactions)]
    /\ pc' = IF entry = "make_report" THEN "save_to_worksheet" ELSE "export"
    /\ UNCHANGED <<entry, file, args, payouts, choice, exc, locals, stdout, workbook, reloaded>>

\* Line 248.
OutputName(report) == "Report " \o report.balance_payout_id \o ".xlsx"

\* Lines 243-249 on the report_data of line 237 or 239 (no -o is given);
\* get_latest_payouts then leaves its loop (line 209).
Export ==
    /\ pc = "export"
    /\ LET report == IF args.json # None THEN reloaded[1] ELSE report_data
       IN /\ stdout' = IF args.print_json THEN <<json_dumps(report)>> ELSE stdout
          /\ workbook' = IF args.save_to_excel THEN <<OutputName(report)>> ELSE workbook
    /\ pc' = "done"
    /\ UNCHANGED <<entry, file, args, payouts, choice, exc, locals, report_data, reloaded>>

\* Line 188: make_report saves under the name it was given, '' by default, and
\* prints nothing.
MakeReportSave ==
    /\ pc = "save_to_worksheet"
    /\ workbook' = <<"">>
    /\ pc' = "done"
    /\ UNCHANGED <<entry, file, args, payouts, choice, exc, locals, report_data, stdout,
                   reloaded>>

\* The program is run again, with -j naming a file that holds what the run
\* before printed, with or without the payout of that run, and otherwise as
\* before. The variables of the run before stay as its record.
RunWithJson ==
    /\ pc = "done"
    /\ args.json = None
    /\ stdout # <<>>
    /\ file' = stdout
    /\ stdout' = <<>>
    /\ workbook' = <<>>
    /\ payouts' = <<>>
    /\ choice' = <<>>
    /\ \E payout \in {None, args.payout} :
          args' = [args EXCEPT !.json = "report.json",
                               !.payout = IF Interactive THEN None ELSE payout]
    /\ pc' = IF Interactive THEN "get_latest_payouts" ELSE "process_report_data"
    /\ UNCHANGED <<entry, exc, locals, report_data, reloaded>>

\* The pipeline, from process_report_data on.
Next ==
    \/ ProcessReportData
    \/ FetchPage
    \/ FetchFails
    \/ GetPaymentIntentsIds
    \/ MakeExecutor
    \/ Submit
    \/ \E k \in DOMAIN futures : WorkerStart(k)
    \/ \E k \in DOMAIN futures : WorkerFinish(k)
    \/ \E k \in DOMAIN futures : AsCompleted(k)
    \/ ReturnDict
    \/ ShutdownRaise
    \/ Simplify
    \/ Aggregate
    \/ Export
    \/ RunWithJson

\* main(), or the call it would make at line 262.
NextDirect ==
    \/ Main
    \/ Next

Spec == Init /\ [][NextDirect]_vars

\* main(), or the call it would make at line 260: get_latest_payouts, with the
\* pipeline it calls at line 208.
NextInteractive ==
    \/ Main
    \/ ListPayouts
    \/ ListPayoutsFails
    \/ Prompt
    \/ Next

SpecInteractive == InitInteractive /\ [][NextInteractive]_vars

\* The aggregator and what follows it, on any list of enriched transactions.
NextAgg ==
    \/ Aggregate
    \/ Export
    \/ RunWithJson
    \/ ProcessReportData

SpecAgg == InitAgg /\ [][NextAgg]_vars

\* make_report, called directly.
NextMakeReport ==
    \/ FetchPage
    \/ FetchFails
    \/ GetPaymentIntentsIds
    \/ MakeExecutor
    \/ Submit
    \/ \E k \in DOMAIN futures : WorkerStart(k)
    \/ \E k \in DOMAIN futures : WorkerFinish(k)
    \/ \E k \in DOMAIN futures : AsCompleted(k)
    \/ ReturnDict
    \/ ShutdownRaise
    \/ Simplify
    \/ Aggregate
    \/ MakeReportSave

SpecMakeReport == InitMakeReport /\ [][NextMakeReport]_vars

\* ===================================================================== claims
AssemblerPcs == {"simplify_report_data", "aggregate_report_transactions",
                 "export", "save_to_worksheet", "done"}
ReportPcs == {"export", "save_to_worksheet", "done"}

\* The transaction references no purchase intent.
NoIntent(t) ==
    "payment_intent" \notin DOMAIN t.source \/ t.source.payment_intent = None

\* The provider's answer makes the lookup of this intent fail.
FailedLookup(intent_id) ==
    /\ intent_id \in DOMAIN sessions
    /\ sessions[intent_id].error \/ Len(sessions[intent_id].data) > 1

\* The metadata section 4.2 of the specification gives an intent whose lookup
\* succeeds, from the provider's answer alone.
Metadata(intent_id) ==
    LET found == sessions[intent_id].data
    IN IF found = <<>>
       THEN [product |-> "SudoSOS Topup",
             customer |-> [name |-> None, email |-> None]]
       ELSE [product |-> Head(Head(found).line_items),
             customer |-> Head(found).customer_details]

Occurrences(seq, x) == Cardinality({i \in DOMAIN seq : seq[i] = x})

\* ------------------------------------------------------------------------ C1
\* C1: the assembler completes on every transaction sequence: a transaction that
\* references no purchase intent never makes the run fail (no AttributeError is
\* raised for it) and is never dropped; in the enriched list it carries the
\* unmatched default, product, name and email all null.
C1_UnmatchedGetsDefault ==
    /\ exc # AttributeError
    /\ pc \in ReportPcs =>
          /\ Len(report_data.transactions) = Len(transactions_data)
          /\ \A i \in DOMAIN transactions_data :
                NoIntent(transactions_data[i]) =>
                    /\ report_data.transactions[i].product = None
                    /\ report_data.transactions[i].name = None
                    /\ report_data.transactions[i].email = None

\* ------------------------------------------------------------------------ C2
\* C2: once any lookup has failed (an error of the service, or more than one
\* session for the intent), whatever the other workers have done, the mapping is
\* never returned to get_report_data, the assembler never runs, no report is
\* built, and the run cannot end normally.
C2_NoPartialMapping ==
    (\E k \in DOMAIN futures :
        /\ futures[k].state \in {"finished", "yielded"}
        /\ FailedLookup(futures[k].intent_id))
    => /\ ~returned
       /\ pc \notin AssemblerPcs
       /\ report_data = NoReport

\* A lookup failed after another one succeeded and was written: the partial
\* dict exists in make_intent_charge_dict and dies with it.
C2_Witness ==
    /\ pc = "fatal"
    /\ exc = ValueErrorSessions
    /\ intent_type_charge_dict # <<>>
    /\ \E k \in DOMAIN futures : FailedLookup(futures[k].intent_id)
    /\ ~returned

\* ------------------------------------------------------------------------ C3
\* C3: in every report, whatever the order in which the lookups completed, the
\* enriched list has the length of the fetcher's list, its i-th record carries
\* the i-th transaction's id, and each record's product, name and email are the
\* ones the provider's answer for that transaction's intent determines.
C3_OrderPreserved ==
    pc \in ReportPcs =>
        /\ Len(report_data.transactions) = Len(transactions_data)
        /\ \A i \in DOMAIN transactions_data :
              LET t == transactions_data[i]
                  x == report_data.transactions[i]
                  m == Metadata(t.source.payment_intent)
              IN /\ x.id = t.id
                 /\ x.amount = t.amount /\ x.fee = t.fee /\ x.net = t.net
                 /\ x.created = t.created /\ x.currency = t.currency
                 /\ x.product = m.product
                 /\ x.name = m.customer.name
                 /\ x.email = m.customer.email

\* A report of two or more transactions whose lookups were written to the dict
\* in another order than the transactions' order.
C3_Witness ==
    /\ pc = "done"
    /\ Len(report_data.transactions) >= 2
    /\ Len(intent_type_charge_dict) = 2
    /\ intent_type_charge_dict[1].key # payment_intents_ids[1]

\* ------------------------------------------------------------------------ C4
BucketSum(aggregation, field) ==
    SumOf([i \in DOMAIN aggregation |-> aggregation[i].value[field]],
          DOMAIN aggregation)

TransactionSum(transactions, field, product) ==
    SumOf([i \in DOMAIN transactions |-> transactions[i][field]],
          {i \in DOMAIN transactions : transactions[i].product = product})

TotalSum(transactions, field) ==
    SumOf([i \in DOMAIN transactions |-> transactions[i][field]],
          DOMAIN transactions)

\* C4: in the aggregation of any list of enriched transactions, the buckets'
\* amounts, fees and nets add up to the transactions' amounts, fees and nets;
\* there is one bucket per product that occurs (null included), and a bucket
\* holds the sums of exactly the transactions with its product.
C4_Conservation ==
    pc \in ReportPcs =>
        LET agg == report_data.aggregation
            txs == report_data.transactions
        IN /\ \A field \in {"amount", "fee", "net"} :
                 BucketSum(agg, field) = TotalSum(txs, field)
           /\ DictKeys(agg) = {txs[i].product : i \in DOMAIN txs}
           /\ \A i, j \in DOMAIN agg : agg[i].key = agg[j].key => i = j
           /\ \A i \in DOMAIN agg :
                 /\ agg[i].value.product = agg[i].key
                 /\ \A field \in {"amount", "fee", "net"} :
                       agg[i].value[field] = TransactionSum(txs, field, agg[i].key)

\* A list with a repeated null product, another product and a negative amount.
C4_Witness ==
    /\ pc = "export"
    /\ Len(report_data.transactions) = 3
    /\ Occurrences([i \in DOMAIN report_data.transactions |->
                       report_data.transactions[i].product], None) = 2
    /\ \E i \in DOMAIN report_data.transactions :
          report_data.transactions[i].amount < 0
    /\ Len(report_data.aggregation) = 2

\* ------------------------------------------------------------------------ C5
\* C5: a report printed with json.dumps and read back has as many transactions
\* as the live report, the same set of aggregation keys (the key of the null
\* product included) and, for each key, the same amount, fee and net.
C5_RoundTrip ==
    reloaded # <<>> =>
        /\ Len(reloaded[1].transactions) = Len(report_data.transactions)
        /\ DictKeys(reloaded[1].aggregation) = DictKeys(report_data.aggregation)
        /\ \A i \in DOMAIN report_data.aggregation :
              LET k == report_data.aggregation[i].key
                  live == report_data.aggregation[i].value
                  back == reloaded[1].aggregation[DictIndex(reloaded[1].aggregation, k)].value
              IN /\ back.amount = live.amount
                 /\ back.fee = live.fee
                 /\ back.net = live.net

\* ------------------------------------------------------------------------ C6
\* C6: when the ValueError of line 63 (more than one session) leaves the pool,
\* the run ends with a fatal error, also under interactive selection: the
\* program does not go back to its prompt.
C6_ViolationIsFatal ==
    [][(pc = "shutdown" /\ exc = ValueErrorSessions /\ pc' # "shutdown")
          => pc' = "fatal"]_vars

\* ------------------------------------------------------------------------ C7
\* C7: the mapping make_intent_charge_dict returns has as keys exactly the
\* queried identifiers, and each value is what that identifier's own lookup
\* determines: zero sessions give the direct-charge label with null name and
\* email, one session gives its first line item's description and its
\* customer-details record.
C7_MappingPerIdentifier ==
    returned =>
        /\ DictKeys(intent_type_charge_dict) = Range(payment_intents_ids)
        /\ \A i \in DOMAIN intent_type_charge_dict :
              LET id == intent_type_charge_dict[i].key
                  v == intent_type_charge_dict[i].value
              IN /\ ~sessions[id].error
                 /\ Len(sessions[id].data) <= 1
                 /\ Len(sessions[id].data) = 0 =>
                       v = [product |-> DIRECT_CHARGE,
                            customer |-> [name |-> None, email |-> None]]
                 /\ Len(sessions[id].data) = 1 =>
                       /\ v.product = sessions[id].data[1].line_items[1]
                       /\ v.customer = sessions[id].data[1].customer_details

\* A returned mapping with one intent of no session and one intent of one
\* session with two line items.
C7_Witness ==
    /\ returned
    /\ \E i, j \in DOMAIN intent_type_charge_dict :
          /\ sessions[intent_type_charge_dict[i].key].data = <<>>
          /\ sessions[intent_type_charge_dict[j].key].data = <<Session1>>

\* ------------------------------------------------------------------------ C8
\* The positions of the provider's entries that are not the settlement.
Kept == {i \in DOMAIN provided : provided[i].type # "payout"}

\* C8: at every point of the paginated read, the list built so far holds no
\* settlement entry and holds every other entry the provider has returned, in
\* the provider's order; the read of a payout with no other entry ends with the
\* empty list and no error.
C8_FilterKeepsOrder ==
    /\ \A j \in DOMAIN transactions_data : transactions_data[j].type # "payout"
    /\ Len(transactions_data) = Cardinality(Kept)
    /\ \A i \in Kept :
          transactions_data[Cardinality({h \in Kept : h <= i})] = provided[i]
    /\ (pc = "get_payment_intents_ids" /\ Kept = {}) =>
          (transactions_data = <<>> /\ exc = None)

\* A ledger read over more than one page, with the settlement entry between
\* two other entries, one of them a refund.
C8_Witness ==
    /\ pc = "get_payment_intents_ids"
    /\ Len(provided) > PageSize
    /\ provided[2].type = "payout"
    /\ provided[1].type = "refund"
    /\ Len(transactions_data) = 2

\* ------------------------------------------------------------------------ C9
\* The line typed selects none of the payouts listed and is not the exit 0.
InvalidSelection(input) ==
    \/ ~input.numeric
    \/ input.value < 0
    \/ input.value > Len(payouts)

\* C9: after a line that is not a valid selection, the program is at its prompt
\* again: it has not ended, with an error or otherwise.
C9_InvalidInputReprompts ==
    (choice # <<>> /\ InvalidSelection(choice[1])) => pc = "prompt"

\* ----------------------------------------------------------------------- C10
\* C10: one remote lookup per identifier, each key written at most once, and
\* the assembler reads the mapping only when no lookup is pending or running.
C10_OncePerIdentifier ==
    /\ \A id \in IntentIds : lookups[id] <= 1 /\ writes[id] <= 1
    /\ pc \in AssemblerPcs =>
          \A k \in DOMAIN futures : futures[k].state = "yielded"

\* C10, amended: one remote lookup per element of the identifier list (an
\* identifier that k transactions reference is looked up k times), never more;
\* in the mapping returned each key has been written once per element; and the
\* assembler reads the mapping only when every submitted lookup has been
\* submitted, has finished and has been collected.
C10_OncePerElement ==
    /\ \A id \in IntentIds :
          /\ lookups[id] = Cardinality({k \in DOMAIN futures :
                               futures[k].intent_id = id
                               /\ futures[k].state # "pending"})
          /\ lookups[id] <= Occurrences(payment_intents_ids, id)
          /\ writes[id] <= lookups[id]
          /\ returned =>
                /\ lookups[id] = Occurrences(payment_intents_ids, id)
                /\ writes[id] = Occurrences(payment_intents_ids, id)
    /\ pc \in AssemblerPcs =>
          /\ returned
          /\ Len(futures) = Len(payment_intents_ids)
          /\ \A k \in DOMAIN futures : futures[k].state = "yielded"

\* A mapping returned after one identifier was looked up and written twice.
C10_Witness ==
    /\ returned
    /\ pc = "simplify_report_data"
    /\ \E id \in IntentIds : lookups[id] = 2 /\ writes[id] = 2

====
